---- MODULE Spec2Model ----
(***************************************************************************)
(* The migration execution engine of sql-migrator: processes.Migrator      *)
(* (Up, Down, Redo, Status, DBVersion, executeMigration) running against   *)
(* a storage.SQLStorage.  The record list of the store follows             *)
(* storage.MockSQLStorage; every storage call is one atomic step of the    *)
(* calling engine instance and may return an error, as the SQLStorage      *)
(* interface allows.                                                       *)
(***************************************************************************)
EXTENDS Integers, Sequences, FiniteSets, TLC

(* ------------------------------ bounds -------------------------------- *)

\* Largest registry (number of migrations handed to Migrator.Create).
MaxReg == 3

\* Largest value the clock behind time.Now() reaches.
MaxClock == 12

\* The same two bounds when two instances run interleaved.
MaxRegTwo == 1

MaxClockTwo == 5

\* The same two bounds when a command is related to the one before it.
MaxRegPair == 2

MaxClockPair == 8

\* The same two bounds when a migration was renamed after it was recorded.
MaxRegDrift == 2

MaxClockDrift == 8

\* Most files in the migrations directory at the start.
MaxFiles == 3

\* Most Application.Create calls.
MaxCreate == 2

(* ----------------------------- constants ------------------------------ *)

\* Engine instances (independent processes sharing one store).
Inst == {1, 2}

\* The instance that runs alone in the sequential specification.
Solo == {1}

\* Migration names of the registry, by version.
Names == <<"create_users", "add_index", "add_orders", "add_audit", "add_tags",
           "drop_legacy", "add_views">>

StatusProcess == "process"

StatusSuccess == "success"

StatusCancellation == "cancellation"

StatusCancel == "cancel"

StatusError == "error"

\* The commands of the engine.
Ops == {"Up", "Down", "Redo", "Status", "DBVersion"}

\* The commands that change history.
WriteOps == {"Up", "Down", "Redo"}

\* No lock holder.
Nobody == 0

VARIABLES
  migrations,   \* Migrator.migrations: the registry, names by index (version = index)
  history,      \* the store's migration records, in insertion order
  lockHolder,   \* the instance holding the store-wide lock, or Nobody
  clock,        \* the last value time.Now() returned
  pc,           \* per instance: position in the running command
  op,           \* per instance: the command called
  frame,        \* per instance: the Migrator method executing (Redo runs Down first)
  idx,          \* per instance: 0-based index of the migration being executed
  result,       \* per instance: the value the running method returns
  lastVersion,  \* per instance: the local lastVersion
  pre,          \* per instance: history when the command was called
  log,          \* per instance: the storage calls and script runs of the command
  prev,         \* per instance: the command that returned before this one
  files,        \* the migrations directory: its files, each a name and a content
  run,          \* Application.runMigrations in progress
  created       \* the Application.Create calls made so far

\* The variables of the engine (package processes and the store).
engineVars == <<migrations, history, lockHolder, clock, pc, op, frame, idx, result,
                lastVersion, pre, log, prev>>

\* The variables of the application layer (package app).
appVars == <<files, run, created>>

vars == <<migrations, history, lockHolder, clock, pc, op, frame, idx, result,
          lastVersion, pre, log, prev, files, run, created>>

(* --------------------------- the store -------------------------------- *)

\* Indexes of the records with the given version and name.
Matching(h, rec) ==
  {k \in 1..Len(h) : h[k].version = rec.version /\ h[k].name = rec.name}

\* A plausible bug: every write appends a record.
InsertMigrationAppending(h, rec) == Append(h, rec)

\* A plausible bug: an existing record gets the new status but keeps its
\* change time.
InsertMigrationKeepsTime(h, rec) ==
  IF Matching(h, rec) # {}
  THEN LET k0 == CHOOSE k \in Matching(h, rec) : \A j \in Matching(h, rec) : k <= j
       IN [h EXCEPT ![k0] = [@ EXCEPT !.status = rec.status]]
  ELSE Append(h, rec)

\* MockSQLStorage.InsertMigration: the first record with the same version and
\* name gets the status and the change time; otherwise the record is appended.
InsertMigration(h, rec) ==
  IF Matching(h, rec) # {}
  THEN LET k0 == CHOOSE k \in Matching(h, rec) : \A j \in Matching(h, rec) : k <= j
       IN [h EXCEPT ![k0] = [@ EXCEPT !.status = rec.status, !.time = rec.time]]
  ELSE Append(h, rec)

\* A plausible bug: the scan runs forward and returns the first match.
SelectFirstMigrationByStatus(h, s) ==
  LET S == {k \in 1..Len(h) : h[k].status = s}
  IN IF S = {} THEN 0 ELSE CHOOSE k \in S : \A j \in S : k <= j

\* MockSQLStorage.SelectLastMigrationByStatus: the index of the last record
\* in insertion order with the status, 0 when none has it.
SelectLastMigrationByStatus(h, s) ==
  LET S == {k \in 1..Len(h) : h[k].status = s}
  IN IF S = {} THEN 0 ELSE CHOOSE k \in S : \A j \in S : k >= j

\* The version of the last Success record, 0 when there is none: what Up,
\* Redo and DBVersion compute from a read that is not a hard error.
LastSuccessVersion(h) ==
  LET k == SelectLastMigrationByStatus(h, StatusSuccess)
  IN IF k = 0 THEN 0 ELSE h[k].version

(* --------------------------- the engine ------------------------------- *)

\* A plausible bug: every transition is entered as Process.
ProcessStatusOfUp(f) == StatusProcess

\* The transient status a method enters a transition with.
ProcessStatus(f) == IF f = "Down" THEN StatusCancellation ELSE StatusProcess

SuccessStatus(f) == IF f = "Down" THEN StatusCancel ELSE StatusSuccess

\* The direction of the transition a method runs: Redo re-applies upwards.
Direction(f) == IF f = "Down" THEN "Down" ELSE "Up"

\* The record executeMigration hands to InsertMigration.
Record(i, status, now) ==
  [version |-> idx[i] + 1, name |-> migrations[idx[i] + 1],
   status |-> status, time |-> now]

\* One entry of the log.
Event(kind, version, arg, ok, held) ==
  [kind |-> kind, version |-> version, arg |-> arg, ok |-> ok, held |-> held]

Logged(i, kind, version, arg, ok) ==
  log' = [log EXCEPT ![i] = Append(@, Event(kind, version, arg, ok, lockHolder = i))]

\* time.Now() calls a command makes at most.
Ticks(o) ==
  CASE o = "Up" -> 2 * Len(migrations)
    [] o = "Down" -> 2
    [] o = "Redo" -> 4
    [] OTHER -> 0

\* No script and no storage call of the command failed (an Unlock error, which
\* is only logged, aside).
NoFailure(i) == \A k \in 1..Len(log[i]) : log[i][k].kind # "unlock" => log[i][k].ok

\* What is remembered of a command once it has returned: the command, its
\* result, the history it was called on and whether anything in it failed.
Remembered(o, r, h, clean) == [op |-> o, result |-> r, pre |-> h, clean |-> clean]

\* No command has returned yet.
NoCommand == Remembered("none", "none", <<>>, TRUE)

\* No application run is in progress.
NoRun == [pc |-> "idle", err |-> "nil", found |-> <<>>, registry |-> <<>>,
          connected |-> FALSE, unreadable |-> {}]

\* A history of k Success records written by earlier runs.
Applied(k) ==
  [v \in 1..k |-> [version |-> v, name |-> Names[v], status |-> StatusSuccess,
                   time |-> 0]]

\* The state when the engine starts: a registry of at most maxReg migrations
\* and either no history or a history written under a registry that was one
\* or two migrations longer (drift between the scripts and the store).
InitBounded(maxReg) ==
  /\ \E n \in 0..maxReg :
       /\ migrations = SubSeq(Names, 1, n)
       /\ history \in {Applied(k) : k \in {0, n + 1, n + 2}}
  /\ lockHolder = Nobody
  /\ clock = 0
  /\ pc = [i \in Inst |-> "idle"]
  /\ op = [i \in Inst |-> "none"]
  /\ frame = [i \in Inst |-> "none"]
  /\ idx = [i \in Inst |-> 0]
  /\ result = [i \in Inst |-> "none"]
  /\ lastVersion = [i \in Inst |-> 0]
  /\ pre = [i \in Inst |-> <<>>]
  /\ log = [i \in Inst |-> <<>>]
  /\ prev = [i \in Inst |-> NoCommand]
  /\ files = {}
  /\ run = NoRun
  /\ created = <<>>

Init == InitBounded(MaxReg)

\* A plausible bug: every command begins by taking the lock.
FirstStepLocking(o) == "lock"

\* Where a command begins: Up and Down (and Redo, through Down) with Lock,
\* Status and DBVersion with their read.
FirstStep(o) == IF o \in WriteOps THEN "lock" ELSE "query"

\* A command is called on a fresh Migrator holding the registry.
CallBounded(i, maxClock) ==
  /\ pc[i] = "idle"
  /\ \E o \in Ops :
       /\ clock + Ticks(o) <= maxClock
       /\ op' = [op EXCEPT ![i] = o]
       /\ frame' = [frame EXCEPT ![i] = IF o = "Redo" THEN "Down" ELSE o]
       /\ pc' = [pc EXCEPT ![i] = FirstStep(o)]
  /\ pre' = [pre EXCEPT ![i] = history]
  /\ log' = [log EXCEPT ![i] = <<>>]
  /\ result' = [result EXCEPT ![i] = "none"]
  /\ UNCHANGED <<migrations, history, lockHolder, clock, idx, lastVersion>>
  /\ UNCHANGED <<prev, appVars>>

\* Where a method continues when it returns after taking the lock: Up and Down
\* run their deferred Unlock first; Redo itself holds no lock and just returns.
ReturnFromNoDefer(f) == "ret"

ReturnFrom(f) == IF f \in {"Up", "Down"} THEN "unlock" ELSE "ret"

\* Where Up and Down continue when Lock fails: they return the error at once.
LockErrorNextIgnored == "read"

LockErrorNext == "ret"

\* Lock: succeeds only when nobody holds the lock; otherwise, or on any other
\* store error, it returns an error.
Lock(i) ==
  /\ pc[i] = "lock"
  /\ \/ /\ lockHolder = Nobody
        /\ lockHolder' = i
        /\ pc' = [pc EXCEPT ![i] = "read"]
        /\ Logged(i, "lock", 0, "", TRUE)
        /\ UNCHANGED result
     \/ /\ pc' = [pc EXCEPT ![i] = LockErrorNext]
        /\ result' = [result EXCEPT ![i] = "ErrLock"]
        /\ Logged(i, "lock", 0, "", FALSE)
        /\ UNCHANGED lockHolder
  /\ UNCHANGED <<migrations, history, clock, op, frame, idx, lastVersion, pre>>
  /\ UNCHANGED <<prev, appVars>>

\* Up's loop starts at index lastVersion.
UpFirstIndexSkipping(L) == L + 1

UpFirstIndex(L) == L

\* Up's and Redo's drift check.
MismatchUp(L, n) == L - 1 > n

\* A plausible bug: Down's drift check is off by one.
MismatchDownStrict(v, n) == v >= n

\* Down's drift check.
MismatchDown(v, n) == v > n

\* Down's index of the migration to roll back.
DownIndexOffByOne(v) == IF v >= 2 THEN v - 2 ELSE 0

DownIndex(v) == v - 1

\* storage.ErrMigrationNotFound: the sentinel the engine tests a read's error
\* for.
ErrMigrationNotFound == "ErrMigrationNotFound"

\* The error MockSQLStorage makes with errors.New when no record matches.
ErrMockNotFound == "errNoMigrationsFound"

\* What a store returns as its error when no record matches: the sentinel, or
\* as MockSQLStorage an error of its own.
NotFoundErrors == {ErrMigrationNotFound, ErrMockNotFound}

\* The errors SelectLastMigrationByStatus(StatusSuccess) can return on history
\* h: nil with the record found, a not-found error when none has the status,
\* or a failure of the store.
ReadOutcomes(h) ==
  {"ErrRead"} \cup (IF SelectLastMigrationByStatus(h, StatusSuccess) = 0
                     THEN NotFoundErrors ELSE {"nil"})

\* A plausible repair: every not-found error counts as not-found.
IsNotFoundAny(e) == e \in NotFoundErrors

\* errors.Is(err, storage.ErrMigrationNotFound).
IsNotFound(e) == e = ErrMigrationNotFound

\* The read returned a record or the sentinel: the engine goes on.
ReadPasses(e) == e = "nil" \/ IsNotFound(e)

\* How a read that returned e is logged.
ReadLogged(i, e, L) ==
  Logged(i, "read", IF ReadPasses(e) THEN L ELSE 0,
         CASE e = "nil" -> "found" [] e \in NotFoundErrors -> "notfound" [] OTHER -> "error",
         ReadPasses(e))

\* Up after Lock: read the last Success record, check drift, enter the loop.
UpRead(i) ==
  /\ pc[i] = "read" /\ frame[i] = "Up"
  /\ \E e \in ReadOutcomes(history) :
       LET L == LastSuccessVersion(history)
           n == Len(migrations)
       IN /\ ReadLogged(i, e, L)
          /\ IF ~ReadPasses(e)
             THEN /\ result' = [result EXCEPT ![i] = e]
                  /\ pc' = [pc EXCEPT ![i] = ReturnFrom("Up")]
                  /\ UNCHANGED <<idx, lastVersion>>
             ELSE /\ lastVersion' = [lastVersion EXCEPT ![i] = L]
                  /\ IF e = "nil" /\ MismatchUp(L, n)
                     THEN /\ result' = [result EXCEPT ![i] = "ErrUnexpectedMigrationVersion"]
                          /\ pc' = [pc EXCEPT ![i] = ReturnFrom("Up")]
                          /\ UNCHANGED idx
                     ELSE IF UpFirstIndex(L) < n
                     THEN /\ idx' = [idx EXCEPT ![i] = UpFirstIndex(L)]
                          /\ pc' = [pc EXCEPT ![i] = "begin"]
                          /\ UNCHANGED result
                     ELSE /\ result' = [result EXCEPT ![i] = "nil"]
                          /\ pc' = [pc EXCEPT ![i] = ReturnFrom("Up")]
                          /\ UNCHANGED idx
  /\ UNCHANGED <<migrations, history, lockHolder, clock, op, frame, pre>>
  /\ UNCHANGED <<prev, appVars>>

\* Down after Lock: read the last Success record; none is a no-op.
DownRead(i) ==
  /\ pc[i] = "read" /\ frame[i] = "Down"
  /\ \E e \in ReadOutcomes(history) :
       LET L == LastSuccessVersion(history)
           n == Len(migrations)
       IN /\ ReadLogged(i, e, L)
          /\ IF ~ReadPasses(e)
             THEN /\ result' = [result EXCEPT ![i] = e]
                  /\ pc' = [pc EXCEPT ![i] = ReturnFrom("Down")]
                  /\ UNCHANGED <<idx, lastVersion>>
             ELSE /\ lastVersion' = [lastVersion EXCEPT ![i] = L]
                  /\ IF e # "nil"
                     THEN /\ result' = [result EXCEPT ![i] = "nil"]
                          /\ pc' = [pc EXCEPT ![i] = ReturnFrom("Down")]
                          /\ UNCHANGED idx
                     ELSE IF MismatchDown(L, n)
                     THEN /\ result' = [result EXCEPT ![i] = "ErrUnexpectedMigrationVersion"]
                          /\ pc' = [pc EXCEPT ![i] = ReturnFrom("Down")]
                          /\ UNCHANGED idx
                     ELSE /\ idx' = [idx EXCEPT ![i] = DownIndex(L)]
                          /\ pc' = [pc EXCEPT ![i] = "begin"]
                          /\ UNCHANGED result
  /\ UNCHANGED <<migrations, history, lockHolder, clock, op, frame, pre>>
  /\ UNCHANGED <<prev, appVars>>

\* Redo after its Down returned nil: read the last Success record again and
\* apply m.migrations[lastVersion]; an index past the registry panics.
RedoRead(i) ==
  /\ pc[i] = "read" /\ frame[i] = "Redo"
  /\ \E e \in ReadOutcomes(history) :
       LET L == LastSuccessVersion(history)
           n == Len(migrations)
       IN /\ ReadLogged(i, e, L)
          /\ IF ~ReadPasses(e)
             THEN /\ result' = [result EXCEPT ![i] = e]
                  /\ pc' = [pc EXCEPT ![i] = ReturnFrom("Redo")]
                  /\ UNCHANGED <<idx, lastVersion>>
             ELSE /\ lastVersion' = [lastVersion EXCEPT ![i] = L]
                  /\ IF e = "nil" /\ MismatchUp(L, n)
                     THEN /\ result' = [result EXCEPT ![i] = "ErrUnexpectedMigrationVersion"]
                          /\ pc' = [pc EXCEPT ![i] = ReturnFrom("Redo")]
                          /\ UNCHANGED idx
                     ELSE IF L >= n
                     THEN /\ result' = [result EXCEPT ![i] = "panic"]
                          /\ pc' = [pc EXCEPT ![i] = ReturnFrom("Redo")]
                          /\ UNCHANGED idx
                     ELSE /\ idx' = [idx EXCEPT ![i] = L]
                          /\ pc' = [pc EXCEPT ![i] = "begin"]
                          /\ UNCHANGED result
  /\ UNCHANGED <<migrations, history, lockHolder, clock, op, frame, pre>>
  /\ UNCHANGED <<prev, appVars>>

\* The direction-specific error a method returns when executeMigration fails.
WrapError(f) ==
  CASE f = "Up" -> "ErrMigrationUp"
    [] f = "Down" -> "ErrMigrationDown"
    [] OTHER -> "ErrMigrationRedo"

\* What executeMigration returns after a failed script: the error of the
\* InsertMigration call that records the Error status (nil when it succeeds).
ErrorPathReturnScriptError(insertOk) == "err"

ErrorPathReturn(insertOk) == IF insertOk THEN "nil" ELSE "err"

\* executeMigration has returned e ("nil" or "err") to the method in frame[i]:
\* Up goes on with the next index or returns, Down and Redo return.
AfterExec(i, e) ==
  IF e = "err"
  THEN /\ result' = [result EXCEPT ![i] = WrapError(frame[i])]
       /\ pc' = [pc EXCEPT ![i] = ReturnFrom(frame[i])]
       /\ UNCHANGED idx
  ELSE IF frame[i] = "Up" /\ idx[i] + 1 < Len(migrations)
  THEN /\ idx' = [idx EXCEPT ![i] = @ + 1]
       /\ pc' = [pc EXCEPT ![i] = "begin"]
       /\ UNCHANGED result
  ELSE /\ result' = [result EXCEPT ![i] = "nil"]
       /\ pc' = [pc EXCEPT ![i] = ReturnFrom(frame[i])]
       /\ UNCHANGED idx

\* A plausible bug: the error of the first write is ignored and the script
\* runs all the same.
InsertProcessUnchecked(i) ==
  /\ pc[i] = "begin"
  /\ clock' = clock + 1
  /\ LET rec == Record(i, ProcessStatus(frame[i]), clock + 1)
     IN \/ /\ history' = InsertMigration(history, rec)
           /\ Logged(i, "write", rec.version, rec.status, TRUE)
        \/ /\ Logged(i, "write", rec.version, rec.status, FALSE)
           /\ UNCHANGED history
  /\ pc' = [pc EXCEPT ![i] = "run"]
  /\ UNCHANGED <<idx, result>>
  /\ UNCHANGED <<migrations, lockHolder, op, frame, lastVersion, pre>>
  /\ UNCHANGED <<prev, appVars>>

\* executeMigration, first write: the record enters the transient status.
InsertProcess(i) ==
  /\ pc[i] = "begin"
  /\ clock' = clock + 1
  /\ LET rec == Record(i, ProcessStatus(frame[i]), clock + 1)
     IN \/ /\ history' = InsertMigration(history, rec)
           /\ Logged(i, "write", rec.version, rec.status, TRUE)
           /\ pc' = [pc EXCEPT ![i] = "run"]
           /\ UNCHANGED <<idx, result>>
        \/ /\ Logged(i, "write", rec.version, rec.status, FALSE)
           /\ AfterExec(i, "err")
           /\ UNCHANGED history
  /\ UNCHANGED <<migrations, lockHolder, op, frame, lastVersion, pre>>
  /\ UNCHANGED <<prev, appVars>>

\* executeMigration, the script: goFunc or storage.Migrate (an empty body runs
\* nothing and counts as a success).
RunScript(i) ==
  /\ pc[i] = "run"
  /\ \/ /\ Logged(i, "run", idx[i] + 1, Direction(frame[i]), TRUE)
        /\ pc' = [pc EXCEPT ![i] = "commit"]
     \/ /\ Logged(i, "run", idx[i] + 1, Direction(frame[i]), FALSE)
        /\ pc' = [pc EXCEPT ![i] = "fail"]
  /\ UNCHANGED <<migrations, history, lockHolder, clock, op, frame, idx, result,
                 lastVersion, pre>>
  /\ UNCHANGED <<prev, appVars>>

\* executeMigration after a failed script: record the Error status and return
\* what that write returned.
InsertError(i) ==
  /\ pc[i] = "fail"
  /\ clock' = clock + 1
  /\ LET rec == Record(i, StatusError, clock + 1)
     IN \/ /\ history' = InsertMigration(history, rec)
           /\ Logged(i, "write", rec.version, rec.status, TRUE)
           /\ AfterExec(i, ErrorPathReturn(TRUE))
        \/ /\ Logged(i, "write", rec.version, rec.status, FALSE)
           /\ AfterExec(i, ErrorPathReturn(FALSE))
           /\ UNCHANGED history
  /\ UNCHANGED <<migrations, lockHolder, op, frame, lastVersion, pre>>
  /\ UNCHANGED <<prev, appVars>>

\* executeMigration after the script: record the terminal status.
InsertTerminal(i) ==
  /\ pc[i] = "commit"
  /\ clock' = clock + 1
  /\ LET rec == Record(i, SuccessStatus(frame[i]), clock + 1)
     IN \/ /\ history' = InsertMigration(history, rec)
           /\ Logged(i, "write", rec.version, rec.status, TRUE)
           /\ AfterExec(i, "nil")
        \/ /\ Logged(i, "write", rec.version, rec.status, FALSE)
           /\ AfterExec(i, "err")
           /\ UNCHANGED history
  /\ UNCHANGED <<migrations, lockHolder, op, frame, lastVersion, pre>>
  /\ UNCHANGED <<prev, appVars>>

\* What an Unlock error makes of the method's result: it is logged only.
UnlockErrorResultEscalated(r) == "ErrUnlock"

UnlockErrorResult(r) == r

\* Unlock returning ok (TRUE: the lock is released; FALSE: an error, and the
\* store keeps the token).  Redo goes on after a Down that returned nil; every
\* other return ends the command.
UnlockReturning(i, ok) ==
  /\ lockHolder' = IF ok /\ lockHolder = i THEN Nobody ELSE lockHolder
  /\ Logged(i, "unlock", 0, "", ok)
  /\ LET r == IF ok THEN result[i] ELSE UnlockErrorResult(result[i])
     IN IF op[i] = "Redo" /\ frame[i] = "Down" /\ r = "nil"
        THEN /\ frame' = [frame EXCEPT ![i] = "Redo"]
             /\ pc' = [pc EXCEPT ![i] = "read"]
             /\ result' = [result EXCEPT ![i] = "none"]
        ELSE /\ pc' = [pc EXCEPT ![i] = "ret"]
             /\ result' = [result EXCEPT ![i] = r]
             /\ UNCHANGED frame

\* The deferred Unlock of Up and Down.
Unlock(i) ==
  /\ pc[i] = "unlock"
  /\ \/ UnlockReturning(i, TRUE)
     \/ UnlockReturning(i, FALSE)
  /\ UNCHANGED <<migrations, history, clock, op, idx, lastVersion, pre>>
  /\ UNCHANGED <<prev, appVars>>

\* What SelectMigrations returns as its error on history h: nil with the
\* records, a not-found error when there is none, or a failure of the store.
ListOutcomes(h) ==
  {"ErrRead"} \cup (IF Len(h) = 0 THEN NotFoundErrors ELSE {"nil"})

\* A plausible repair: a not-found error of SelectMigrations is an empty report.
StatusResultTolerant(e) == IF e = "nil" \/ e \in NotFoundErrors THEN "nil" ELSE "ErrGetStatus"

\* What Status returns when SelectMigrations returned e: any error is
\* ErrGetStatus.
StatusResult(e) == IF e = "nil" THEN "nil" ELSE "ErrGetStatus"

\* Migrator.Status: list the records and print them.
Status(i) ==
  /\ pc[i] = "query" /\ op[i] = "Status"
  /\ \E e \in ListOutcomes(history) :
       /\ result' = [result EXCEPT ![i] = StatusResult(e)]
       /\ Logged(i, "list", 0,
                 CASE e = "nil" -> "found" [] e \in NotFoundErrors -> "notfound"
                   [] OTHER -> "error",
                 e = "nil")
  /\ pc' = [pc EXCEPT ![i] = "ret"]
  /\ UNCHANGED <<migrations, history, lockHolder, clock, op, frame, idx,
                 lastVersion, pre>>
  /\ UNCHANGED <<prev, appVars>>

\* Migrator.DBVersion: the version of the last Success record, 0 when none.
DBVersion(i) ==
  /\ pc[i] = "query" /\ op[i] = "DBVersion"
  /\ \E e \in ReadOutcomes(history) :
       /\ ReadLogged(i, e, LastSuccessVersion(history))
       /\ IF ReadPasses(e)
          THEN /\ result' = [result EXCEPT ![i] = "nil"]
               /\ lastVersion' = [lastVersion EXCEPT ![i] = LastSuccessVersion(history)]
          ELSE /\ result' = [result EXCEPT ![i] = "ErrGetVersion"]
               /\ UNCHANGED lastVersion
  /\ pc' = [pc EXCEPT ![i] = "ret"]
  /\ UNCHANGED <<migrations, history, lockHolder, clock, op, frame, idx, pre>>
  /\ UNCHANGED <<prev, appVars>>

\* The command has returned to its caller; the Migrator is discarded.  With
\* remember, what the command did is kept for the command that follows.
ReturnBounded(i, remember) ==
  /\ pc[i] = "ret"
  /\ pc' = [pc EXCEPT ![i] = "idle"]
  /\ op' = [op EXCEPT ![i] = "none"]
  /\ frame' = [frame EXCEPT ![i] = "none"]
  /\ idx' = [idx EXCEPT ![i] = 0]
  /\ result' = [result EXCEPT ![i] = "none"]
  /\ lastVersion' = [lastVersion EXCEPT ![i] = 0]
  /\ pre' = [pre EXCEPT ![i] = <<>>]
  /\ log' = [log EXCEPT ![i] = <<>>]
  /\ prev' = IF remember
             THEN [prev EXCEPT ![i] = Remembered(op[i], result[i], pre[i], NoFailure(i))]
             ELSE prev
  /\ UNCHANGED <<migrations, history, lockHolder, clock>>
  /\ UNCHANGED appVars

Return(i) == ReturnBounded(i, FALSE)

ReturnPair(i) == ReturnBounded(i, TRUE)

Call(i) == CallBounded(i, MaxClock)

CallTwo(i) == CallBounded(i, MaxClockTwo)

CallPair(i) == CallBounded(i, MaxClockPair)

\* The steps of a running command up to its return.
Handle(i) ==
  \/ Lock(i)
  \/ UpRead(i)
  \/ DownRead(i)
  \/ RedoRead(i)
  \/ InsertProcess(i)
  \/ RunScript(i)
  \/ InsertError(i)
  \/ InsertTerminal(i)
  \/ Unlock(i)
  \/ Status(i)
  \/ DBVersion(i)

\* The steps of a running command.
Step(i) == Handle(i) \/ Return(i)

\* One engine instance at a time: commands run one after the other.
Next == \E i \in Solo : Call(i) \/ Step(i)

Spec == Init /\ [][Next]_vars

\* Two engine instances against the same store, interleaved at storage calls.
InitTwo == InitBounded(MaxRegTwo)

NextTwo == \E i \in Inst : CallTwo(i) \/ Step(i)

SpecTwo == InitTwo /\ [][NextTwo]_vars

\* One engine instance whose commands are remembered, to relate a command to
\* the one before it.
InitPair == InitBounded(MaxRegPair)

NextPair == \E i \in Solo : CallPair(i) \/ Handle(i) \/ ReturnPair(i)

SpecPair == InitPair /\ [][NextPair]_vars

\* The name a migration was recorded under before its fragments were renamed.
OldName == "create_user"

\* History h with the record at position v recorded under the old name.
Renamed(h, v) == [h EXCEPT ![v] = [@ EXCEPT !.name = OldName]]

\* The state when the engine starts on a registry of at most MaxRegDrift
\* migrations of which the first k were applied by earlier runs, at most one
\* of them under another name than the registry gives its version now.
InitDrift ==
  /\ \E n \in 1..MaxRegDrift, k \in 0..MaxRegDrift :
       /\ k <= n
       /\ migrations = SubSeq(Names, 1, n)
       /\ history \in {Applied(k)} \cup {Renamed(Applied(k), v) : v \in 1..k}
  /\ lockHolder = Nobody
  /\ clock = 0
  /\ pc = [i \in Inst |-> "idle"]
  /\ op = [i \in Inst |-> "none"]
  /\ frame = [i \in Inst |-> "none"]
  /\ idx = [i \in Inst |-> 0]
  /\ result = [i \in Inst |-> "none"]
  /\ lastVersion = [i \in Inst |-> 0]
  /\ pre = [i \in Inst |-> <<>>]
  /\ log = [i \in Inst |-> <<>>]
  /\ prev = [i \in Inst |-> NoCommand]
  /\ files = {}
  /\ run = NoRun
  /\ created = <<>>

CallDrift(i) == CallBounded(i, MaxClockDrift)

NextDrift == \E i \in Solo : CallDrift(i) \/ Step(i)

SpecDrift == InitDrift /\ [][NextDrift]_vars

(* ---------------------- the application layer ------------------------- *)
(* Package app: file names are sequences of tokens (a digit, the separator  *)
(* "_", a word, an extension); a file is its name and its content.          *)

Digits == <<"0", "1", "2", "3", "4", "5", "6", "7", "8", "9">>

IsDigit(t) == \E d \in 1..Len(Digits) : Digits[d] = t

DigitValue(t) == (CHOOSE d \in 1..Len(Digits) : Digits[d] = t) - 1

Separator == "_"

\* The tokens in byte order, as os.ReadDir sorts names.
TokenOrder ==
  <<".go", ".sql", ".txt">> \o Digits \o <<"README", Separator, "a", "b", "down", "up">>

TokenRank(t) == CHOOSE k \in 1..Len(TokenOrder) : TokenOrder[k] = t

\* Name a sorts before name b, or is b.
RECURSIVE NameLeq(_, _)
NameLeq(a, b) ==
  IF a = <<>> THEN TRUE
  ELSE IF b = <<>> THEN FALSE
  ELSE IF Head(a) = Head(b) THEN NameLeq(Tail(a), Tail(b))
  ELSE TokenRank(Head(a)) < TokenRank(Head(b))

\* os.ReadDir: the entries of the directory sorted by file name.
RECURSIVE ReadDir(_)
ReadDir(dir) ==
  IF dir = {} THEN <<>>
  ELSE LET first == CHOOSE f \in dir : \A g \in dir : NameLeq(f.name, g.name)
       IN <<first>> \o ReadDir(dir \ {first})

\* regGetVersion.FindString (^\d+): the digits a name begins with.
RECURSIVE FindVersion(_)
FindVersion(name) ==
  IF name = <<>> \/ ~IsDigit(Head(name)) THEN <<>>
  ELSE <<Head(name)>> \o FindVersion(Tail(name))

\* strconv.Atoi of a string of digits.
RECURSIVE Atoi(_)
Atoi(ds) ==
  IF ds = <<>> THEN 0
  ELSE 10 * Atoi(SubSeq(ds, 1, Len(ds) - 1)) + DigitValue(ds[Len(ds)])

\* fmt.Sprintf("%05d", v): the decimal digits of v, padded with zeros to five.
RECURSIVE Itoa(_)
Itoa(v) == IF v < 10 THEN <<Digits[v + 1]>> ELSE Itoa(v \div 10) \o <<Digits[(v % 10) + 1]>>

RECURSIVE ZeroPad(_, _)
ZeroPad(ds, width) == IF Len(ds) >= width THEN ds ELSE ZeroPad(<<"0">> \o ds, width)

\* strings.Split(name, "_").
RECURSIVE Split(_)
Split(name) ==
  LET seps == {k \in 1..Len(name) : name[k] = Separator}
  IN IF seps = {} THEN <<name>>
     ELSE LET k == CHOOSE j \in seps : \A l \in seps : j <= l
          IN <<SubSeq(name, 1, k - 1)>> \o Split(SubSeq(name, k + 1, Len(name)))

\* strings.Join(parts, "_").
RECURSIVE Join(_)
Join(parts) ==
  IF parts = <<>> THEN <<>>
  ELSE IF Len(parts) = 1 THEN parts[1]
  ELSE parts[1] \o <<Separator>> \o Join(Tail(parts))

ErrInvalidMigrationName == "ErrInvalidMigrationName"

\* A plausible bug: a name of two parts passes, with an empty migration name.
parseFileNameLenient(fileName) ==
  IF FindVersion(fileName) = <<>>
  THEN [err |-> ErrInvalidMigrationName, version |-> 0, name |-> <<>>]
  ELSE LET parts == Split(fileName)
       IN [err |-> "nil", version |-> Atoi(FindVersion(fileName)),
           name |-> Join(SubSeq(parts, 2, Len(parts) - 1))]

\* parseFileName: the version is the number the name begins with, the
\* migration name what lies between the first and the last separator.
parseFileName(fileName) ==
  IF FindVersion(fileName) = <<>>
  THEN [err |-> ErrInvalidMigrationName, version |-> 0, name |-> <<>>]
  ELSE LET parts == Split(fileName)
       IN IF Len(parts) < 3
          THEN [err |-> ErrInvalidMigrationName, version |-> 0, name |-> <<>>]
          ELSE [err |-> "nil", version |-> Atoi(FindVersion(fileName)),
                name |-> Join(SubSeq(parts, 2, Len(parts) - 1))]

\* regGetUpMigration and its like (^.+_up\.sql$): something, then the
\* separator, the direction and the extension.
MatchString(direction, ext, fileName) ==
  /\ Len(fileName) > 3
  /\ SubSeq(fileName, Len(fileName) - 2, Len(fileName)) = <<Separator, direction, ext>>

\* A nil function value.
NoFunc == <<>>

\* storage.Migration as the application layer fills it.
Migration(version, name, up, down, upGo, downGo) ==
  [Version |-> version, Name |-> name, Up |-> up, Down |-> down,
   UpGo |-> upGo, DownGo |-> downGo]

NoMigration == Migration(0, <<>>, "", "", NoFunc, NoFunc)

\* processMigrationFile: the Migration of one file; readable says whether
\* os.ReadFile succeeds on it.
processMigrationFile(file, version, migrationName, readable) ==
  CASE MatchString("up", ".sql", file.name) ->
         IF readable
         THEN [err |-> "nil",
               migration |-> Migration(version, migrationName, file.body, "", NoFunc, NoFunc)]
         ELSE [err |-> "ErrReadFile", migration |-> NoMigration]
    [] MatchString("down", ".sql", file.name) ->
         IF readable
         THEN [err |-> "nil",
               migration |-> Migration(version, migrationName, "", file.body, NoFunc, NoFunc)]
         ELSE [err |-> "ErrReadFile", migration |-> NoMigration]
    [] MatchString("up", ".go", file.name) ->
         [err |-> "nil",
          migration |-> Migration(version, migrationName, "", "", file.name, NoFunc)]
    [] MatchString("down", ".go", file.name) ->
         [err |-> "nil",
          migration |-> Migration(version, migrationName, "", "", NoFunc, file.name)]
    [] OTHER -> [err |-> ErrInvalidMigrationName, migration |-> NoMigration]

\* A plausible bug: the later fragment replaces every body field.
mergeMigrationsOverwriting(existing, new) ==
  [existing EXCEPT !.Up = new.Up, !.Down = new.Down,
                   !.UpGo = new.UpGo, !.DownGo = new.DownGo]

\* mergeMigrations: the fields the new fragment has set replace the existing
\* ones.
mergeMigrations(existing, new) ==
  [existing EXCEPT !.Up = IF new.Up # "" THEN new.Up ELSE @,
                   !.Down = IF new.Down # "" THEN new.Down ELSE @,
                   !.UpGo = IF new.UpGo # NoFunc THEN new.UpGo ELSE @,
                   !.DownGo = IF new.DownGo # NoFunc THEN new.DownGo ELSE @]

\* The empty map.
NoMigrations == <<>>

\* The loop of getMigrations over the entries left, with the map filled so
\* far; unreadable are the names os.ReadFile fails on.
RECURSIVE getMigrationsFrom(_, _, _)
getMigrationsFrom(entries, found, unreadable) ==
  IF entries = <<>> THEN [err |-> "nil", migrations |-> found]
  ELSE LET file == Head(entries)
           parsed == parseFileName(file.name)
           made == processMigrationFile(file, parsed.version, parsed.name,
                                        file.name \notin unreadable)
       IN IF parsed.err # "nil" THEN [err |-> parsed.err, migrations |-> NoMigrations]
          ELSE IF made.err # "nil" THEN [err |-> made.err, migrations |-> NoMigrations]
          ELSE getMigrationsFrom(
                 Tail(entries),
                 IF parsed.version \in DOMAIN found
                 THEN [found EXCEPT ![parsed.version] = mergeMigrations(@, made.migration)]
                 ELSE [v \in DOMAIN found \cup {parsed.version} |->
                         IF v \in DOMAIN found THEN found[v] ELSE made.migration],
                 unreadable)

\* getMigrations on a directory os.ReadDir could read.
getMigrations(dir, unreadable) == getMigrationsFrom(ReadDir(dir), NoMigrations, unreadable)

\* getLastVersion: the greatest number a file name begins with, 0 when none
\* begins with one.
RECURSIVE getLastVersion(_)
getLastVersion(entries) ==
  IF entries = <<>> THEN 0
  ELSE LET rest == getLastVersion(Tail(entries))
           version == Atoi(FindVersion(Head(entries).name))
       IN IF FindVersion(Head(entries).name) # <<>> /\ version > rest THEN version ELSE rest

\* A file of the given name and content.
File(name, body) == [name |-> name, body |-> body]

\* The name <version>_<name>_<direction><ext>.
FileName(version, name, direction, ext) ==
  version \o <<Separator>> \o name \o <<Separator, direction, ext>>

\* The files a migrations directory is drawn from at the start: fragments of
\* versions 1 and 2 (as SQL and as Go, with and without content, two names and
\* two spellings of version 1) and files that are no fragments.
Pool ==
  { File(FileName(<<"1">>, <<"a">>, "up", ".sql"), "A"),
    File(FileName(<<"1">>, <<"a">>, "up", ".sql"), ""),
    File(FileName(<<"1">>, <<"a">>, "down", ".sql"), "a"),
    File(FileName(<<"2">>, <<"b">>, "up", ".sql"), "B"),
    File(FileName(<<"2">>, <<"b">>, "down", ".sql"), "b"),
    File(FileName(<<"1">>, <<"a">>, "up", ".go"), "go"),
    File(FileName(<<"1">>, <<"a">>, "down", ".go"), "go"),
    File(FileName(<<"1">>, <<"b">>, "down", ".sql"), "x"),
    File(FileName(<<"0", "0", "0", "0", "1">>, <<"a">>, "up", ".sql"), "AA"),
    File(FileName(<<"1">>, <<>>, "up", ".sql"), "n"),
    File(<<"a", Separator, "up", ".sql">>, "v"),
    File(<<"1", Separator, "up", ".sql">>, "s"),
    File(<<"1", Separator, "a", Separator, "b", ".sql">>, "d"),
    File(<<"1", Separator, "a", Separator, "up", ".txt">>, "k"),
    File(<<"README">>, "r") }

\* The directories the application can start on: no two files of one name.
Directories ==
  {dir \in SUBSET Pool :
     /\ Cardinality(dir) <= MaxFiles
     /\ \A f, g \in dir : f.name = g.name => f = g}

\* The engine is not running.
EngineIdle ==
  /\ migrations = <<>>
  /\ history = <<>>
  /\ lockHolder = Nobody
  /\ clock = 0
  /\ pc = [i \in Inst |-> "idle"]
  /\ op = [i \in Inst |-> "none"]
  /\ frame = [i \in Inst |-> "none"]
  /\ idx = [i \in Inst |-> 0]
  /\ result = [i \in Inst |-> "none"]
  /\ lastVersion = [i \in Inst |-> 0]
  /\ pre = [i \in Inst |-> <<>>]
  /\ log = [i \in Inst |-> <<>>]
  /\ prev = [i \in Inst |-> NoCommand]

InitApp ==
  /\ EngineIdle
  /\ files \in Directories
  /\ run = NoRun
  /\ created = <<>>

\* runMigrations up to the registry: os.ReadDir and getMigrations; an error is
\* fatal to the run.
GetMigrations ==
  /\ run.pc = "idle"
  /\ \/ run' = [NoRun EXCEPT !.pc = "fatal", !.err = "ErrReadDir"]
     \/ \E unreadable \in {{}} \cup {{f.name} : f \in files} :
          LET got == getMigrations(files, unreadable)
          IN run' = [NoRun EXCEPT !.pc = IF got.err = "nil" THEN "create" ELSE "fatal",
                                  !.err = got.err, !.found = got.migrations,
                                  !.unreadable = unreadable]
  /\ UNCHANGED <<files, created>>
  /\ UNCHANGED engineVars

\* The orders in which a range over a map with the given keys can visit them.
RangeOrders(keys) ==
  {order \in [1..Cardinality(keys) -> keys] :
     \A j, k \in 1..Cardinality(keys) : j # k => order[j] # order[k]}

\* A plausible repair: the range visits the keys in ascending order.
MapRangeSorted(keys) ==
  {order \in RangeOrders(keys) :
     \A j, k \in 1..Cardinality(keys) : j < k => order[j] < order[k]}

\* `for _, migration := range migrations` over a Go map: any order.
MapRange(keys) == RangeOrders(keys)

\* Migrator.Create: the migration is appended with the next version.
MigratorCreate(registry, name, up, down, upGo, downGo) ==
  Append(registry, [Status |-> StatusSuccess, Version |-> Len(registry) + 1,
                    Name |-> name, Up |-> up, Down |-> down,
                    UpGo |-> upGo, DownGo |-> downGo])

\* The loop of runMigrations that hands the migrations to Migrator.Create in
\* the order given.
RECURSIVE CreateEach(_, _, _)
CreateEach(order, found, registry) ==
  IF order = <<>> THEN registry
  ELSE LET m == found[Head(order)]
       IN CreateEach(Tail(order), found,
                     MigratorCreate(registry, m.Name, m.Up, m.Down, m.UpGo, m.DownGo))

\* runMigrations: the Migrator gets its registry from the map.
CreateRegistry ==
  /\ run.pc = "create"
  /\ \E order \in MapRange(DOMAIN run.found) :
       run' = [run EXCEPT !.pc = "connect",
                          !.registry = CreateEach(order, run.found, <<>>)]
  /\ UNCHANGED <<files, created>>
  /\ UNCHANGED engineVars

\* runMigrations: Connect; an error is fatal to the run.
Connect ==
  /\ run.pc = "connect"
  /\ \/ run' = [run EXCEPT !.pc = "command", !.connected = TRUE]
     \/ run' = [run EXCEPT !.pc = "fatal", !.err = "ErrConnect"]
  /\ UNCHANGED <<files, created>>
  /\ UNCHANGED engineVars

\* runMigrations: the command of the engine runs on the registry, then the
\* deferred Close.
Command ==
  /\ run.pc = "command"
  /\ run' = [run EXCEPT !.pc = "done", !.connected = FALSE]
  /\ UNCHANGED <<files, created>>
  /\ UNCHANGED engineVars

\* The run is over.
Finish ==
  /\ run.pc \in {"done", "fatal"}
  /\ run' = NoRun
  /\ UNCHANGED <<files, created>>
  /\ UNCHANGED engineVars

\* The migration types createMigrationFiles knows.
MigrationTypes == {"sql", "go"}

\* A plausible bug: the version found is used as it is.
NextVersionSame(last) == last

\* Application.Create: lastVersion++.
NextVersion(last) == last + 1

\* The content createMigrationFiles writes: nothing for SQL, a template for Go.
Template(migrationType) == IF migrationType = "sql" THEN "" ELSE "template"

\* createMigrationFiles: the directory after writing the up file and then the
\* down file; written is how many os.WriteFile calls succeed (the first error
\* ends the call).  os.WriteFile replaces a file of the same name.
createMigrationFiles(dir, version, name, migrationType, written) ==
  IF migrationType \notin MigrationTypes THEN dir
  ELSE LET ext == IF migrationType = "sql" THEN ".sql" ELSE ".go"
           upFile == File(FileName(ZeroPad(Itoa(version), 5), name, "up", ext),
                          Template(migrationType))
           downFile == File(FileName(ZeroPad(Itoa(version), 5), name, "down", ext),
                            Template(migrationType))
           Write(d, f) == {g \in d : g.name # f.name} \cup {f}
       IN CASE written = 0 -> dir
            [] written = 1 -> Write(dir, upFile)
            [] OTHER -> Write(Write(dir, upFile), downFile)

\* Application.Create: read the directory, take the next version, write the
\* two files.
Create ==
  /\ run.pc = "idle"
  /\ Len(created) < MaxCreate
  /\ \E name \in {<<"a">>, <<"a", Separator, "b">>}, migrationType \in MigrationTypes \cup {"xml"},
        readable \in BOOLEAN, written \in 0..2 :
       LET version == NextVersion(getLastVersion(ReadDir(files)))
       IN /\ (~readable => written = 0)
          /\ files' = IF readable
                      THEN createMigrationFiles(files, version, name, migrationType, written)
                      ELSE files
          /\ created' = Append(created,
                               [name |-> name, type |-> migrationType, before |-> files,
                                version |-> version,
                                ok |-> readable /\ written = 2
                                         /\ migrationType \in MigrationTypes])
  /\ UNCHANGED run
  /\ UNCHANGED engineVars

\* Application.Up, Down or Redo called over and over on one directory.
NextApp == GetMigrations \/ CreateRegistry \/ Connect \/ Command \/ Finish

SpecApp == InitApp /\ [][NextApp]_vars

\* Application.Create called over and over, on a directory that is empty or
\* holds one file at the start.
InitCreate ==
  /\ EngineIdle
  /\ files \in {{}} \cup {{f} : f \in Pool}
  /\ run = NoRun
  /\ created = <<>>

NextCreate == Create

SpecCreate == InitCreate /\ [][NextCreate]_vars

(* ------------------------- reading the log --------------------------- *)

IsWrite(e) == e.kind = "write"

IsRun(e) == e.kind = "run"

IsTransition(e) == e.kind \in {"write", "run"}

IsLockTaken(e) == e.kind = "lock" /\ e.ok

IsUnlock(e) == e.kind = "unlock"

\* The record writes and script runs of the command of instance i, in order.
Transitions(i) == SelectSeq(log[i], IsTransition)

\* Instance i has returned from command o and its caller has not gone on yet.
Returned(i, o) == pc[i] = "ret" /\ op[i] = o

\* The three steps of one transition of version v: transient write, script,
\* terminal write.
FullTransition(v, direction) ==
  <<[kind |-> "write", version |-> v, arg |-> ProcessStatus(direction), ok |-> TRUE],
    [kind |-> "run", version |-> v, arg |-> direction, ok |-> TRUE],
    [kind |-> "write", version |-> v, arg |-> SuccessStatus(direction), ok |-> TRUE]>>

\* An event without the lock flag, to compare with FullTransition.
Plain(e) == [kind |-> e.kind, version |-> e.version, arg |-> e.arg, ok |-> e.ok]

\* The record of version v in history h has status s.
HasStatus(h, v, s) == \E k \in 1..Len(h) : h[k].version = v /\ h[k].status = s

(* ------------------------------ claims -------------------------------- *)

\* C1: an Up on a registry of n migrations whose history has last-Success
\* version L <= n, with no script or storage call failing, runs exactly the up
\* transitions of versions L+1..n in ascending order (each written Process and
\* then Success), returns nil, and leaves the last-Success version DBVersion
\* reports at n.
C1_UpAppliesPending ==
  \A i \in Inst :
    LET L == LastSuccessVersion(pre[i])
        n == Len(migrations)
        t == Transitions(i)
    IN (Returned(i, "Up") /\ NoFailure(i) /\ L <= n) =>
         /\ result[i] = "nil"
         /\ Len(t) = 3 * (n - L)
         /\ \A j \in 1..(n - L) : \A s \in 1..3 :
              Plain(t[3 * (j - 1) + s]) = FullTransition(L + j, "Up")[s]
         /\ \A v \in (L + 1)..n : HasStatus(history, v, StatusSuccess)
         /\ LastSuccessVersion(history) = n

\* C1 witness: Up has returned on registry {1,2} from an empty history with
\* both records Success.
C1_Witness ==
  /\ Returned(1, "Up") /\ NoFailure(1) /\ result[1] = "nil"
  /\ Len(migrations) = 2 /\ pre[1] = <<>>
  /\ Len(history) = 2
  /\ history[1].status = StatusSuccess /\ history[2].status = StatusSuccess
  /\ LastSuccessVersion(history) = 2

\* The positions in log[i] of the scripts that failed.
FailedRuns(i) == {k \in 1..Len(log[i]) : log[i][k].kind = "run" /\ ~log[i][k].ok}

\* C2: when the up script of migration k fails during Up, no migration with a
\* greater version is attempted in that call (no script run, no record
\* written), and the last-Success version DBVersion reports is the one from
\* before the call.
C2_UpStopsAtFirstFailure ==
  \A i \in Inst :
    Returned(i, "Up") =>
      \A k \in FailedRuns(i) :
        /\ \A j \in 1..Len(log[i]) :
             (IsTransition(log[i][j]) /\ log[i][j].ok) =>
               log[i][j].version <= log[i][k].version
        /\ LastSuccessVersion(history) = LastSuccessVersion(pre[i])

\* C3: a command in which a migration script failed returns its
\* direction-specific error and never nil.
C3_ScriptFailureIsReturned ==
  \A i \in Inst :
    (pc[i] = "ret" /\ op[i] \in WriteOps /\ FailedRuns(i) # {}) =>
      result[i] \in {"ErrMigrationUp", "ErrMigrationDown", "ErrMigrationRedo"}

\* C4: when a script failed and the write of the Error status succeeded, the
\* record of that migration has status Error when the command returns.
C4_ErrorIsRecorded ==
  \A i \in Inst :
    (pc[i] = "ret" /\ op[i] \in WriteOps) =>
      \A k \in FailedRuns(i) :
        (k < Len(log[i]) /\ log[i][k + 1].ok) =>
          HasStatus(history, log[i][k].version, StatusError)

\* C5: an instance that is about to write a record or run a script within Up,
\* Down or Redo holds the store-wide lock.
C5_WritesUnderLock ==
  \A i \in Inst :
    (op[i] \in WriteOps /\ pc[i] \in {"begin", "run", "fail", "commit"}) =>
      lockHolder = i

\* Lock failed for the command instance i is running.
LockFailed(i) ==
  op[i] \in WriteOps /\ log[i] # <<>> /\ log[i][1].kind = "lock" /\ ~log[i][1].ok

\* C6: once Lock has failed for Up, Down or Redo, the command has returned the
\* lock error and the failed Lock is its only storage call (no read, no script
\* run, no record write); the failing Lock step and every later step of that
\* command leave the history as it is.
C6_LockFailureTouchesNothing ==
  /\ [](\A i \in Inst :
          LockFailed(i) => (pc[i] = "ret" /\ result[i] = "ErrLock" /\ Len(log[i]) = 1))
  /\ [][\A i \in Inst :
          (pc'[i] # pc[i] /\ (LockFailed(i) \/ LockFailed(i)')) => history' = history]_vars

\* C6 witness: instance 2 has returned the lock error while instance 1 holds
\* the lock in the middle of a transition.
C6_Witness ==
  /\ pc[2] = "ret" /\ op[2] \in WriteOps /\ result[2] = "ErrLock"
  /\ Len(log[2]) = 1
  /\ lockHolder = 1 /\ pc[1] = "run"

\* C7: when Up, Down or Redo returns, it has called Unlock exactly once if it
\* took the lock and never otherwise; after an Unlock that succeeded the
\* instance does not hold the lock; an Unlock error is not the result.
C7_UnlockOnEveryPath ==
  \A i \in Inst :
    (pc[i] = "ret" /\ op[i] \in WriteOps) =>
      LET taken == Len(SelectSeq(log[i], IsLockTaken))
          released == SelectSeq(log[i], IsUnlock)
      IN /\ taken <= 1
         /\ Len(released) = taken
         /\ (taken = 1 /\ released[1].ok) => lockHolder # i
         /\ result[i] # "ErrUnlock"
         /\ (taken = 1 /\ op[i] # "Redo") => log[i][Len(log[i])].kind = "unlock"

\* C7 witness: Down has returned the down-failure error after its Unlock
\* failed.
C7_Witness ==
  /\ Returned(1, "Down") /\ result[1] = "ErrMigrationDown"
  /\ Len(SelectSeq(log[1], IsLockTaken)) = 1
  /\ Len(SelectSeq(log[1], IsUnlock)) = 1
  /\ ~log[1][Len(log[1])].ok /\ log[1][Len(log[1])].kind = "unlock"

\* C8: Down changes no record but the last Success record of the history it
\* found and adds none; every write and script run is of that record's
\* migration, with at most one script run; with nothing failing the record is
\* written Cancellation and then Cancel and the last-Success version becomes
\* that of the Success record before it; with no Success record Down returns
\* nil and writes nothing.
C8_DownRollsBackLastSuccess ==
  \A i \in Inst :
    Returned(i, "Down") =>
      LET k == SelectLastMigrationByStatus(pre[i], StatusSuccess)
          t == Transitions(i)
      IN /\ Len(history) = Len(pre[i])
         /\ \A j \in 1..Len(pre[i]) : j # k => history[j] = pre[i][j]
         /\ \A j \in 1..Len(t) : k # 0 /\ t[j].version = pre[i][k].version
         /\ Len(SelectSeq(t, IsRun)) <= 1
         /\ (k # 0 /\ pre[i][k].version <= Len(migrations)
               /\ \E j \in 1..Len(log[i]) : log[i][j].kind = "read" /\ log[i][j].ok) =>
              (Len(t) >= 1 /\ IsWrite(t[1]) /\ t[1].arg = StatusCancellation)
         /\ (k = 0 /\ NoFailure(i)) => (result[i] = "nil" /\ t = <<>> /\ history = pre[i])
         /\ (k # 0 /\ NoFailure(i) /\ pre[i][k].version <= Len(migrations)) =>
              /\ result[i] = "nil"
              /\ Len(t) = 3
              /\ \A s \in 1..3 : Plain(t[s]) = FullTransition(pre[i][k].version, "Down")[s]
              /\ history[k].status = StatusCancel
              /\ LastSuccessVersion(history) = LastSuccessVersion(SubSeq(pre[i], 1, k - 1))

\* C8 witness: Down has rolled back version 2 of {1,2} and DBVersion would
\* report 1.
C8_Witness ==
  /\ Returned(1, "Down") /\ result[1] = "nil"
  /\ Len(pre[1]) = 2
  /\ pre[1][1].status = StatusSuccess /\ pre[1][2].status = StatusSuccess
  /\ history[1].status = StatusSuccess /\ history[2].status = StatusCancel
  /\ LastSuccessVersion(history) = 1

\* The versions whose down transition completed (Cancel written) in the command.
RolledBack(i) ==
  {log[i][k].version : k \in {j \in 1..Len(log[i]) :
     IsWrite(log[i][j]) /\ log[i][j].ok /\ log[i][j].arg = StatusCancel}}

\* The versions whose up transition was begun (a Process write attempted).
UpAttempted(i) ==
  {log[i][k].version : k \in {j \in 1..Len(log[i]) :
     IsWrite(log[i][j]) /\ log[i][j].arg = StatusProcess}}

\* C9: Redo begins an up transition only for the version its own down phase
\* rolled back; when the down phase rolled nothing back or failed, it begins
\* none.
C9_RedoReappliesRolledBack ==
  \A i \in Inst : op[i] = "Redo" => UpAttempted(i) \subseteq RolledBack(i)

\* C10: a Redo in which nothing fails, on a registry of one migration whose
\* record is the whole history and is Success, leaves exactly one record, in
\* status Success, with a change time strictly later than before.
C10_RedoSingleMigration ==
  \A i \in Inst :
    (Returned(i, "Redo") /\ NoFailure(i) /\ Len(migrations) = 1
       /\ Len(pre[i]) = 1 /\ pre[i][1].version = 1 /\ pre[i][1].status = StatusSuccess) =>
      /\ result[i] = "nil"
      /\ Len(history) = 1
      /\ history[1].status = StatusSuccess
      /\ history[1].version = 1
      /\ history[1].time > pre[i][1].time

\* C10 witness: such a Redo has returned.
C10_Witness ==
  /\ Returned(1, "Redo") /\ NoFailure(1) /\ Len(migrations) = 1
  /\ Len(pre[1]) = 1 /\ pre[1][1].version = 1 /\ pre[1][1].status = StatusSuccess
  /\ Len(log[1]) = 10 /\ result[1] = "nil"
  /\ Len(history) = 1
  /\ history[1].status = StatusSuccess

\* C11: an Up called right after an Up that returned nil runs no script and
\* writes no record, and leaves the history (statuses and change times) as it
\* found it.
C11_UpIsIdempotent ==
  \A i \in Inst :
    (op[i] = "Up" /\ prev[i].op = "Up" /\ prev[i].result = "nil") =>
      /\ \A k \in 1..Len(log[i]) : ~(IsTransition(log[i][k]) /\ log[i][k].ok)
      /\ history = pre[i]

\* C12: on a registry of one migration whose record is the whole history and
\* is Success, a Down and then an Up in which nothing fails both return nil;
\* the Down leaves the record Cancel, and after the Up the last-Success
\* version is what it was before the Down (1) and the single record is
\* Success.
C12_DownThenUpRestores ==
  \A i \in Inst :
    (Returned(i, "Up") /\ NoFailure(i) /\ prev[i].op = "Down" /\ prev[i].clean
       /\ Len(migrations) = 1 /\ Len(prev[i].pre) = 1
       /\ prev[i].pre[1].version = 1 /\ prev[i].pre[1].status = StatusSuccess) =>
      /\ prev[i].result = "nil"
      /\ result[i] = "nil"
      /\ Len(pre[i]) = 1 /\ pre[i][1].status = StatusCancel
      /\ LastSuccessVersion(history) = LastSuccessVersion(prev[i].pre)
      /\ LastSuccessVersion(history) = 1
      /\ Len(history) = 1
      /\ history[1].version = 1 /\ history[1].status = StatusSuccess

\* C12 witness: such an Up has returned with the record Success again.
C12_Witness ==
  /\ Returned(1, "Up") /\ NoFailure(1) /\ result[1] = "nil"
  /\ prev[1].op = "Down" /\ prev[1].clean /\ prev[1].result = "nil"
  /\ Len(migrations) = 1 /\ Len(prev[1].pre) = 1
  /\ prev[1].pre[1].status = StatusSuccess
  /\ Len(pre[1]) = 1 /\ pre[1][1].status = StatusCancel
  /\ Len(history) = 1 /\ history[1].status = StatusSuccess
  /\ Len(Transitions(1)) = 3

\* The read of the last Success record in the command of instance i returned
\* a record.
ReadFound(i) ==
  \E k \in 1..Len(log[i]) : log[i][k].kind = "read" /\ log[i][k].arg = "found"

\* C13: an Up or Down that read a last-Success version greater than the number
\* of migrations in the registry returns the version-mismatch error, runs no
\* script and writes no record.
C13_VersionMismatchIsRejected ==
  \A i \in Inst :
    (pc[i] = "ret" /\ op[i] \in {"Up", "Down"} /\ ReadFound(i)
       /\ LastSuccessVersion(pre[i]) > Len(migrations)) =>
      /\ result[i] = "ErrUnexpectedMigrationVersion"
      /\ Transitions(i) = <<>>
      /\ history = pre[i]

\* The read of the last Success record in the command of instance i returned
\* a not-found error, and no other storage call and no script failed.
OnlyNotFound(i) ==
  /\ \E k \in 1..Len(log[i]) : log[i][k].kind = "read" /\ log[i][k].arg = "notfound"
  /\ \A k \in 1..Len(log[i]) :
       (log[i][k].kind # "unlock" /\ ~(log[i][k].kind = "read" /\ log[i][k].arg = "notfound"))
         => log[i][k].ok

\* C14: when no record is Success and the read of the last Success record
\* returns the store's not-found error, Up returns nil having applied the
\* registry from version 1, and DBVersion returns nil reporting 0.
C14_NotFoundIsNotAnError ==
  \A i \in Inst :
    /\ (Returned(i, "Up") /\ OnlyNotFound(i)) =>
         /\ result[i] = "nil"
         /\ Len(Transitions(i)) = 3 * Len(migrations)
         /\ \A v \in 1..Len(migrations) : HasStatus(history, v, StatusSuccess)
    /\ (Returned(i, "DBVersion") /\ OnlyNotFound(i)) =>
         (result[i] = "nil" /\ lastVersion[i] = 0)

\* C15: Status on a store with no record, where SelectMigrations returns the
\* store's not-found error, returns nil.
C15_StatusOnEmptyHistory ==
  \A i \in Inst :
    (Returned(i, "Status") /\ history = <<>>
       /\ log[i] # <<>> /\ log[i][1].kind = "list" /\ log[i][1].arg = "notfound") =>
      result[i] = "nil"

\* C16: Status and DBVersion make one storage call, a read; no step of theirs
\* changes the history or the lock, whoever holds it; and their read can be
\* taken whatever the lock's state, so they return while another instance holds
\* the lock.
C16_StatusAndDBVersionAreReads ==
  /\ [](\A i \in Inst :
          op[i] \in {"Status", "DBVersion"} =>
            /\ Len(log[i]) <= 1
            /\ \A k \in 1..Len(log[i]) : log[i][k].kind \in {"list", "read"}
            /\ pc[i] \in {"query", "ret"}
            /\ (pc[i] = "ret" <=> Len(log[i]) = 1))
  /\ [][\A i \in Inst :
          (op[i] \in {"Status", "DBVersion"} /\ pc'[i] # pc[i]) =>
            (history' = history /\ lockHolder' = lockHolder /\ clock' = clock)]_vars

\* C16 witness: instance 2 has returned from Status with the records listed
\* while instance 1 holds the lock between the two writes of a transition.
C16_Witness ==
  /\ Returned(2, "Status") /\ result[2] = "nil"
  /\ lockHolder = 1 /\ pc[1] = "run" /\ op[1] \in WriteOps
  /\ history # <<>> /\ history[Len(history)].status \in {StatusProcess, StatusCancellation}

\* The registry of the run has been built from a directory every file of which
\* could be read.
RegistryBuilt == run.pc \in {"connect", "command", "done"} /\ run.unreadable = {}

\* C17: when the fragments of the directory carry the versions 1..n, the
\* Migrator's registry holds at index i (version i+1) the name and the bodies of
\* the fragments of version i+1, on every run.
C17_RegistryFollowsFragmentVersions ==
  (RegistryBuilt /\ DOMAIN run.found = 1..Cardinality(DOMAIN run.found)) =>
    /\ Len(run.registry) = Cardinality(DOMAIN run.found)
    /\ \A v \in DOMAIN run.found :
         /\ run.found[v].Version = v
         /\ run.registry[v].Version = v
         /\ run.registry[v].Name = run.found[v].Name
         /\ run.registry[v].Up = run.found[v].Up
         /\ run.registry[v].Down = run.found[v].Down
         /\ run.registry[v].UpGo = run.found[v].UpGo
         /\ run.registry[v].DownGo = run.found[v].DownGo

\* The name begins with a decimal number.
HasVersionPrefix(name) == name # <<>> /\ IsDigit(name[1])

\* The name has a segment between its first and its last separator.
HasNameSegment(name) == Cardinality({k \in 1..Len(name) : name[k] = Separator}) >= 2

\* The name ends with the separator, a direction and a known extension.
HasDirectionSuffix(name) ==
  /\ Len(name) >= 3
  /\ name[Len(name) - 2] = Separator
  /\ name[Len(name) - 1] \in {"up", "down"}
  /\ name[Len(name)] \in {".sql", ".go"}

Malformed(name) ==
  ~HasVersionPrefix(name) \/ ~HasNameSegment(name) \/ ~HasDirectionSuffix(name)

\* C18: when a file of the directory lacks the version prefix, the name
\* segment or the direction suffix, the run ends in getMigrations: no map, no
\* registry, no Connect and no command of the engine; the error is the
\* invalid-name error unless reading the directory or a file failed first.
C18_ConstructionIsAllOrNothing ==
  (run.pc # "idle" /\ \E f \in files : Malformed(f.name)) =>
    /\ run.pc = "fatal"
    /\ run.found = <<>>
    /\ run.registry = <<>>
    /\ ~run.connected
    /\ run.err \notin {"ErrReadDir", "ErrReadFile"} => run.err = ErrInvalidMigrationName

\* C18 witness: the run failed with the invalid-name error on a directory
\* whose first two files are fragments and whose third file is none.
C18_Witness ==
  /\ run.pc = "fatal" /\ run.err = ErrInvalidMigrationName /\ run.unreadable = {}
  /\ Cardinality(files) = 3
  /\ \E g \in files :
       /\ Malformed(g.name)
       /\ \A f \in files \ {g} : ~Malformed(f.name) /\ NameLeq(f.name, g.name)

\* The Migration processMigrationFile makes of a fragment file.
Fragment(f) ==
  processMigrationFile(f, parseFileName(f.name).version, parseFileName(f.name).name,
                       TRUE).migration

\* The pairs <<first, later>> of files that are the only two fragments of
\* their version, in the order getMigrations meets them.
FragmentPairs ==
  {p \in files \X files :
     /\ p[1] # p[2] /\ NameLeq(p[1].name, p[2].name)
     /\ parseFileName(p[1].name).version = parseFileName(p[2].name).version
     /\ \A f \in files :
          parseFileName(f.name).version = parseFileName(p[1].name).version => f \in {p[1], p[2]}}

\* The merged Migration takes from the later fragment the body fields it has
\* set and everything else from the first.
RightBiased(merged, first, later) ==
  /\ merged.Version = first.Version
  /\ merged.Name = first.Name
  /\ merged.Up = IF later.Up # "" THEN later.Up ELSE first.Up
  /\ merged.Down = IF later.Down # "" THEN later.Down ELSE first.Down
  /\ merged.UpGo = IF later.UpGo # NoFunc THEN later.UpGo ELSE first.UpGo
  /\ merged.DownGo = IF later.DownGo # NoFunc THEN later.DownGo ELSE first.DownGo

\* No body field is set in both fragments.
DisjointFields(a, b) ==
  /\ a.Up = "" \/ b.Up = ""
  /\ a.Down = "" \/ b.Down = ""
  /\ a.UpGo = NoFunc \/ b.UpGo = NoFunc
  /\ a.DownGo = NoFunc \/ b.DownGo = NoFunc

\* The entries in the opposite order.
RECURSIVE Reverse(_)
Reverse(q) == IF q = <<>> THEN <<>> ELSE Reverse(Tail(q)) \o <<Head(q)>>

\* What getMigrations makes of the directory when it meets the files in the
\* opposite order.
FoundBackwards == getMigrationsFrom(Reverse(ReadDir(files)), NoMigrations, {}).migrations

\* getMigrations has returned the map of a directory all of whose files it read.
MapBuilt == run.pc \in {"create", "connect", "command", "done"} /\ run.unreadable = {}

\* C19 as stated: the merged Migration of two fragments of one version is
\* right-biased and never cleared, and for fragments with disjoint fields it is
\* the same whichever is discovered first.
C19_MergeIsOrderFree ==
  MapBuilt =>
    \A p \in FragmentPairs :
      LET v == parseFileName(p[1].name).version
      IN /\ RightBiased(run.found[v], Fragment(p[1]), Fragment(p[2]))
         /\ DisjointFields(Fragment(p[1]), Fragment(p[2])) => FoundBackwards[v] = run.found[v]

\* C19 amended: the same, with the order-freedom for fragments that have
\* disjoint fields and the same name.
C19_MergeIsRightBiased ==
  MapBuilt =>
    \A p \in FragmentPairs :
      LET v == parseFileName(p[1].name).version
      IN /\ RightBiased(run.found[v], Fragment(p[1]), Fragment(p[2]))
         /\ (DisjointFields(Fragment(p[1]), Fragment(p[2]))
               /\ Fragment(p[1]).Name = Fragment(p[2]).Name)
              => FoundBackwards[v] = run.found[v]

\* C19, the never-clearing case reached: an up fragment with an empty body,
\* met after another up fragment of the version, has left Up as it was.
C19_WitnessNeverCleared ==
  /\ MapBuilt /\ DOMAIN run.found = {1}
  /\ \E p \in FragmentPairs :
       /\ Fragment(p[1]).Up = "AA" /\ Fragment(p[2]).Up = ""
       /\ Fragment(p[2]).Down = ""
       /\ run.found[1].Up = "AA"

\* C19 witness of the pair: two fragments with disjoint fields and one name
\* are merged, the same in both orders.
C19_WitnessPair ==
  /\ MapBuilt /\ DOMAIN run.found = {1}
  /\ \E p \in FragmentPairs :
       /\ DisjointFields(Fragment(p[1]), Fragment(p[2]))
       /\ Fragment(p[1]).Name = Fragment(p[2]).Name
       /\ run.found[1].Up = "A" /\ run.found[1].Down = "a"
       /\ FoundBackwards[1] = run.found[1]

\* The number a file name begins with, 0 when it begins with none.
VersionPrefix(f) == Atoi(FindVersion(f.name))

\* The greatest version prefix in a directory, 0 for none.
MaxVersionPrefix(dir) ==
  IF dir = {} THEN 0
  ELSE CHOOSE m \in {VersionPrefix(f) : f \in dir} : \A f \in dir : VersionPrefix(f) <= m

\* The file is a fragment of the version, the name and the direction.
IsFragment(f, version, name, direction) ==
  /\ parseFileName(f.name).err = "nil"
  /\ parseFileName(f.name).version = version
  /\ parseFileName(f.name).name = name
  /\ \E ext \in {".sql", ".go"} : MatchString(direction, ext, f.name)

\* C20: a Create that succeeds takes the version one greater than the greatest
\* version prefix in the directory (1 when there is none) and adds exactly two
\* files, the up and the down fragment of that version and of its name; after k
\* Creates that all succeed on a directory that was empty, the version prefixes
\* in the directory are exactly 1..k, each with an up and a down fragment.
C20_CreateNumbersVersions ==
  /\ \A k \in 1..Len(created) :
       created[k].ok => created[k].version = MaxVersionPrefix(created[k].before) + 1
  /\ (created # <<>> /\ created[Len(created)].ok) =>
       LET c == created[Len(created)]
           new == files \ c.before
       IN /\ c.before \subseteq files
          /\ Cardinality(new) = 2
          /\ \E f \in new : IsFragment(f, c.version, c.name, "up")
          /\ \E f \in new : IsFragment(f, c.version, c.name, "down")
  /\ (created # <<>> /\ created[1].before = {} /\ \A k \in 1..Len(created) : created[k].ok) =>
       /\ {VersionPrefix(f) : f \in files} = 1..Len(created)
       /\ \A v \in 1..Len(created) :
            /\ \E f \in files : IsFragment(f, v, created[v].name, "up")
            /\ \E f \in files : IsFragment(f, v, created[v].name, "down")

\* C20 witness: two Creates have succeeded on a directory that was empty.
C20_Witness ==
  /\ Len(created) = 2 /\ created[1].before = {}
  /\ created[1].ok /\ created[2].ok
  /\ created[2].version = 2
  /\ Cardinality(files) = 4

TransientStatuses == {StatusProcess, StatusCancellation}

TerminalStatuses == {StatusSuccess, StatusCancel, StatusError}

\* The status a transition is over with: the terminal status of its direction
\* when the script completed, Error when it failed.
ClosingStatus(direction, completed) ==
  IF completed THEN SuccessStatus(direction) ELSE StatusError

\* Instance i is between the two writes of a transition of version v.
InFlight(i, v) == pc[i] \in {"run", "commit", "fail"} /\ idx[i] + 1 = v

\* C21: in the command of an instance, every script run comes right after a
\* write that persisted the record of its version in the transient status of
\* its direction; after a transient write that failed no script runs; every
\* script run is followed by one write of the terminal status (Success or
\* Cancel when the script completed, Error when it failed) and by no second one;
\* and a record that the command has left in a transient status is one between
\* its two writes or one whose terminal write failed.
C21_TwoWritesAroundTheScript ==
  \A i \in Inst :
    LET L == log[i]
    IN /\ \A k \in 1..Len(L) :
            IsRun(L[k]) =>
              /\ k > 1
              /\ IsWrite(L[k - 1]) /\ L[k - 1].ok
              /\ L[k - 1].version = L[k].version
              /\ L[k - 1].arg = ProcessStatus(L[k].arg)
              /\ IF k = Len(L)
                 THEN pc[i] = (IF L[k].ok THEN "commit" ELSE "fail")
                 ELSE /\ IsWrite(L[k + 1])
                      /\ L[k + 1].version = L[k].version
                      /\ L[k + 1].arg = ClosingStatus(L[k].arg, L[k].ok)
                      /\ k + 2 <= Len(L) =>
                           ~(IsWrite(L[k + 2]) /\ L[k + 2].version = L[k].version
                               /\ L[k + 2].arg \in TerminalStatuses)
       /\ \A k \in 1..Len(L) :
            (IsWrite(L[k]) /\ L[k].arg \in TransientStatuses /\ ~L[k].ok) =>
              /\ pc[i] # "run"
              /\ k < Len(L) => ~IsRun(L[k + 1])
       /\ \A v \in 1..Len(migrations) :
            InFlight(i, v) =>
              HasStatus(history, v, ProcessStatus(frame[i]))
       /\ pc[i] # "idle" =>
            \A r \in 1..Len(history) :
              history[r].status \in TransientStatuses =>
                \/ \E q \in 1..Len(pre[i]) : pre[i][q] = history[r]
                \/ InFlight(i, history[r].version)
                \/ \E k \in 1..Len(L) :
                     /\ IsWrite(L[k]) /\ ~L[k].ok
                     /\ L[k].version = history[r].version
                     /\ L[k].arg \in TerminalStatuses

\* C21 witness: Up on {1,2} has returned after applying version 1 in full
\* (Process, script, Success) and failing to write Process for version 2, whose
\* script did not run.
C21_Witness ==
  /\ Returned(1, "Up") /\ Len(migrations) = 2 /\ pre[1] = <<>>
  /\ Len(Transitions(1)) = 4
  /\ \A k \in 1..3 : Plain(Transitions(1)[k]) = FullTransition(1, "Up")[k]
  /\ Plain(Transitions(1)[4]) =
       [kind |-> "write", version |-> 2, arg |-> StatusProcess, ok |-> FALSE]
  /\ ~\E k \in 1..Len(log[1]) : IsRun(log[1][k]) /\ log[1][k].version = 2
  /\ Len(history) = 1 /\ history[1].status = StatusSuccess

\* No record: the status before the first write of a (version, name) pair.
Absent == "absent"

\* The status changes the status state machine lists, as <<from, to>>.
ListedTransitions ==
  { <<Absent, StatusProcess>>,
    <<StatusProcess, StatusSuccess>>, <<StatusProcess, StatusError>>,
    <<StatusSuccess, StatusCancellation>>,
    <<StatusCancellation, StatusCancel>>, <<StatusCancellation, StatusError>>,
    <<StatusError, StatusProcess>>, <<StatusError, StatusCancellation>> }

\* The status changes of re-applying a migration that was rolled back, or whose
\* roll-back was left in Cancellation by a terminal write that failed.
ReapplyTransitions ==
  { <<StatusCancel, StatusProcess>>, <<StatusCancellation, StatusProcess>> }

\* The status of the record of the pair in history h, Absent when there is none.
StatusOf(h, version, name) ==
  LET S == {k \in 1..Len(h) : h[k].version = version /\ h[k].name = name}
  IN IF S = {} THEN Absent ELSE h[CHOOSE k \in S : TRUE].status

\* Every change of a record's status from history h to history g is in the set.
ChangesWithin(h, g, allowed) ==
  \A k \in 1..Len(g) :
    LET from == StatusOf(h, g[k].version, g[k].name)
    IN from # g[k].status => <<from, g[k].status>> \in allowed

\* C22 as stated: every step of the engine changes the status of a record only
\* along a listed transition.
C22_OnlyListedTransitions ==
  [][ChangesWithin(history, history', ListedTransitions)]_vars

\* C22 amended: every step of the engine changes the status of a record only
\* along a listed transition or from Cancel or Cancellation to Process.
C22_OnlyLegalTransitions ==
  [][ChangesWithin(history, history', ListedTransitions \cup ReapplyTransitions)]_vars

\* C22 witness: an Up called on a history whose record of version 1 was Cancel
\* has written it Process, run the script and written it Success.
C22_Witness ==
  /\ Returned(1, "Up") /\ NoFailure(1) /\ result[1] = "nil"
  /\ Len(migrations) = 1
  /\ Len(pre[1]) = 1 /\ pre[1][1].status = StatusCancel
  /\ Len(Transitions(1)) = 3
  /\ \A k \in 1..3 : Plain(Transitions(1)[k]) = FullTransition(1, "Up")[k]
  /\ Len(history) = 1 /\ history[1].status = StatusSuccess

\* No two records of history h have the same version and the same name.
OnePerPair(h) ==
  \A j, k \in 1..Len(h) :
    (h[j].version = h[k].version /\ h[j].name = h[k].name) => j = k

\* From history h to history g nothing but the status and the change time of
\* records has changed.
UpdatedInPlace(h, g) ==
  /\ Len(g) = Len(h)
  /\ \A k \in 1..Len(h) : g[k].version = h[k].version /\ g[k].name = h[k].name

\* C23: the history never holds two records of one (version, name) pair; a
\* write of a record whose pair is in the history changes the status and the
\* change time of that one record, where it stands, and neither the number nor
\* the order of the records; a write of a new pair appends one record.
C23_OneRecordPerPair ==
  /\ [](OnePerPair(history))
  /\ [][\A i \in Inst :
          (Len(log'[i]) = Len(log[i]) + 1 /\ IsWrite(log'[i][Len(log'[i])])
             /\ log'[i][Len(log'[i])].ok) =>
            LET rec == Record(i, log'[i][Len(log'[i])].arg, clock')
            IN IF Matching(history, rec) # {}
               THEN /\ UpdatedInPlace(history, history')
                    /\ \A k \in 1..Len(history) :
                         IF k \in Matching(history, rec)
                         THEN history'[k].status = rec.status /\ history'[k].time = rec.time
                         ELSE history'[k] = history[k]
               ELSE history' = Append(history, rec)]_vars

\* C23 witness: Down has rolled back version 2 of a history of two records:
\* the second record is Cancel with a later change time, the first is as it
\* was, and there are still two records.
C23_Witness ==
  /\ Returned(1, "Down") /\ NoFailure(1) /\ result[1] = "nil"
  /\ Len(pre[1]) = 2 /\ Len(history) = 2
  /\ pre[1][2].status = StatusSuccess /\ pre[1][2].name = Names[2]
  /\ history[2].status = StatusCancel /\ history[2].time > pre[1][2].time
  /\ history[2].version = 2 /\ history[2].name = Names[2]
  /\ history[1] = pre[1][1]

\* The history holds a record of the version under another name and none
\* under this name.
NameClash(h, rec) ==
  /\ Matching(h, rec) = {}
  /\ \E k \in 1..Len(h) : h[k].version = rec.version /\ h[k].name # rec.name

\* C24: a write of a record whose version is in the history under another
\* name returns an error and leaves the history as it was.
C24_RenamedRecordIsRejected ==
  [][\A i \in Inst :
       (Len(log'[i]) = Len(log[i]) + 1 /\ IsWrite(log'[i][Len(log'[i])])
          /\ NameClash(history, Record(i, log'[i][Len(log'[i])].arg, clock'))) =>
         /\ ~log'[i][Len(log'[i])].ok
         /\ history' = history]_vars

\* The versions whose record in history h is Success.
SuccessVersions(h) == {h[k].version : k \in {j \in 1..Len(h) : h[j].status = StatusSuccess}}

\* The Success versions of h are 1..k for some k, and k is the version
\* DBVersion reports.
DenseSuccess(h) ==
  /\ SuccessVersions(h) = 1..Cardinality(SuccessVersions(h))
  /\ LastSuccessVersion(h) = Cardinality(SuccessVersions(h))

\* No storage call of the command of instance i failed; scripts may have.
OnlyScriptsFailed(i) == \A k \in 1..Len(log[i]) : IsRun(log[i][k]) \/ log[i][k].ok

\* C25: when an Up, Down or Redo that was called on the empty history, and in
\* which scripts may have failed but no storage call, has returned, the
\* versions whose record is Success are exactly 1..k for some k >= 0 and k is
\* the version DBVersion reports.
C25_SuccessVersionsAreDense ==
  \A i \in Inst :
    (pc[i] = "ret" /\ op[i] \in WriteOps /\ pre[i] = <<>> /\ OnlyScriptsFailed(i)) =>
      DenseSuccess(history)

====
